---- MODULE Spec2Model ----
(***************************************************************************)
(* A model of src/pipecat/audio/filters/aicoustics_filter.py:              *)
(*   AiCousticsProcessorManager  - the registry of RealTimeL engines       *)
(*   AiCousticsFilter            - the audio framing adapter               *)
(*                                                                         *)
(* Audio is a sequence of bytes (0..255).  A float32 value x is held as    *)
(* the integer x * FloatOne, which is exact for every value the model      *)
(* produces (an int16 divided by 32768, and halves and doubles of it).     *)
(***************************************************************************)
EXTENDS Integers, Sequences, FiniteSets, TLC

\* ------------------------------------------------------------------ bounds

\* the largest num_frames an adapter is constructed with
MaxFrameSize == 3

\* the largest number of int16 samples in one filter call's input
MaxSamples == 4

\* the largest number of samples fed to one adapter between two stops
MaxFed == 5

\* the same, with two adapters
MaxFedMulti == 1

\* the largest number of get_processor calls one thread makes
MaxCalls == 2

\* ------------------------------------------------------- program constants

FullScale == 32768
Int16Min == -32768
Int16Max == 32767
StrengthMin == 0
StrengthMax == 100
FloatOne == 65536
None == 0

Adapters == {"a1", "a2"}
Threads == {"t1", "t2"}
ChannelCounts == {1, 2}
FrameSizes == 1..MaxFrameSize
SampleRates == {16000, 48000}
\* requested enhancement strengths, in hundredths: -1.0, 0.0, 0.5, 1.0, 2.0
StrengthRequests == {-100, 0, 50, 100, 200}
EngineModes == {"identity", "halve", "double"}

LicenseKey(a) == IF a = "a1" THEN "key1" ELSE "key2"

Min(x, y) == IF y < x THEN y ELSE x
Max(x, y) == IF y > x THEN y ELSE x

\* ------------------------------------------------------------ conversions

\* astype(np.int16) of a float: truncation toward zero (n / d, d > 0)
TruncDiv(n, d) == IF n >= 0 THEN n \div d ELSE -((-n) \div d)

\* bytes of one int16, little-endian two's complement
SampleBytes(s) ==
    LET u == IF s < 0 THEN s + 65536 ELSE s
    IN  <<u % 256, u \div 256>>

\* ndarray.tobytes() of an int16 array
RECURSIVE ToBytes(_)
ToBytes(samples) ==
    IF samples = <<>> THEN <<>>
    ELSE SampleBytes(Head(samples)) \o ToBytes(Tail(samples))

\* np.frombuffer(audio, dtype=np.int16): defined when Len(audio) is even
FromBuffer(audio) ==
    [i \in 1..(Len(audio) \div 2) |->
        LET u == audio[2 * i - 1] + 256 * audio[2 * i]
        IN  IF u >= 32768 THEN u - 65536 ELSE u]

\* the float 1/32768 in the model's units: x / 32768.0 is x * Step, and
\* y * 32768.0 is y / Step
Step == FloatOne \div FullScale

\* .astype(np.float32) / 32768.0
Normalize(data) == [i \in 1..Len(data) |-> data[i] * Step]

\* np.clip(x * 32768.0, -32768, 32767).astype(np.int16) of one value: the clip is
\* applied to the scaled float, the truncation to the clipped one
ToInt16(x) ==
    LET clipped == Max(Int16Min * Step, Min(Int16Max * Step, x))
    IN  TruncDiv(clipped, Step)

Denormalize(output) == [i \in 1..Len(output) |-> ToInt16(output[i])]

\* data.reshape(1, -1) / data.reshape(-1, channels).T
Deinterleave(data, ch) ==
    IF ch = 1 THEN [r \in 1..1 |-> data]
    ELSE [r \in 1..ch |-> [i \in 1..(Len(data) \div ch) |-> data[(i - 1) * ch + r]]]

\* a flatten without the transpose: channel after channel
InterleaveFlat(rows, ch) ==
    IF ch = 1 THEN rows[1]
    ELSE [j \in 1..(ch * Len(rows[1])) |->
             rows[((j - 1) \div Len(rows[1])) + 1][((j - 1) % Len(rows[1])) + 1]]

\* output.flatten() / output.T.flatten()
Interleave(rows, ch) ==
    IF ch = 1 THEN rows[1]
    ELSE [j \in 1..(ch * Len(rows[1])) |-> rows[((j - 1) % ch) + 1][((j - 1) \div ch) + 1]]

\* number of samples per channel of a (channels, n) array: shape[1]
Width(rows) == Len(rows[1])

EmptyRows(ch) == [r \in 1..ch |-> <<>>]

\* np.concatenate([x, y], axis=1)
ConcatRows(x, y) == [r \in DOMAIN x |-> x[r] \o y[r]]

\* ------------------------------------------------------------------ state

VARIABLES
    instances,             \* AiCousticsProcessorManager._instances: key -> handle
    engines,               \* every RealTimeL object constructed so far; a handle is its index
    channels,              \* self._channels, per adapter
    num_frames,            \* self._num_frames
    enhancement_strength,  \* self._enhancement_strength, in hundredths
    sample_rate,           \* self._sample_rate
    filtering,             \* self._filtering
    enhancer,              \* self._enhancer: a handle, or None
    buffer,                \* self._buffer: one sequence of floats per channel
    fed,                   \* history: int16 samples buffered since the adapter last was stopped
    handed,                \* history: chunks passed to process_deinterleaved since then
    requested,             \* history: the strength last asked for, before clamping
    returned,              \* history: samples filter returned for the samples in fed
    last,                  \* history: the operation that led to this state, its argument
                           \* (stop: the samples per channel it dropped; filter: the
                           \* behaviour of the engine it called), its input, what it
                           \* returned and how often it called the engine
    pc,                    \* per thread: the line of get_processor it is at
    targ,                  \* per thread: the arguments of its get_processor call
    tret,                  \* per thread: the <<key, handle>> pairs its calls returned
    loop                   \* the filter call in progress: its position, adapter, engine
                           \* behaviour, input, processed slices so far, the samples
                           \* per channel buffered before it and its iterations so far

vars == <<instances, engines, channels, num_frames, enhancement_strength, sample_rate,
          filtering, enhancer, buffer, fed, handed, requested, returned, last, pc,
          targ, tret, loop>>

adapterVars == <<channels, num_frames, enhancement_strength, sample_rate, filtering,
                 enhancer, buffer, fed, handed, requested, returned, last>>

threadVars == <<pc, targ, tret, loop>>

\* the adapters that have been constructed
Made == DOMAIN channels

NoBytes == <<>>

Did(op, a, arg, path, audio, out, calls) ==
    [op |-> op, a |-> a, arg |-> arg, path |-> path, audio |-> audio, out |-> out,
     calls |-> calls]

\* no filter call is in progress
NoCall ==
    [pc |-> "idle", a |-> "a1", mode |-> "unused", audio |-> NoBytes,
     output_chunks |-> << >>, before |-> 0, iterations |-> 0]

\* --------------------------------------------------------------- registry

ConfigKey(sr, ch, nf) == <<sr, ch, nf>>

\* a registry that never finds a key
MissingAlways(inst, key) == TRUE

\* key not in cls._instances
Missing(inst, key) == key \notin DOMAIN inst

\* cls._instances[key] = h
Store(inst, key, h) ==
    [k \in (DOMAIN inst) \cup {key} |-> IF k = key THEN h ELSE inst[k]]

\* RealTimeL(license_key=..., num_channels=..., sample_rate=..., num_frames=...);
\* its strength is unknown (<<>>) until set_enhancement_strength is called
RealTimeL(lic, sr, ch, nf) ==
    [license_key |-> lic, sample_rate |-> sr, num_channels |-> ch, num_frames |-> nf,
     strength |-> <<>>]

EngineKey(e) == ConfigKey(e.sample_rate, e.num_channels, e.num_frames)

\* get_processor run without interruption: the registry, the engines and the handle
\* returned
GetProcessor(inst, eng, lic, sr, ch, nf) ==
    LET key == ConfigKey(sr, ch, nf)
    IN  IF Missing(inst, key)
        THEN [instances |-> Store(inst, key, Len(eng) + 1),
              engines |-> Append(eng, RealTimeL(lic, sr, ch, nf)),
              handle |-> Len(eng) + 1]
        ELSE [instances |-> inst, engines |-> eng, handle |-> inst[key]]

\* handle.set_enhancement_strength(v)
SetEnhancementStrength(eng, h, v) == [eng EXCEPT ![h].strength = <<v>>]

\* a clamp without its lower limit
ClampAbove(v) == Min(StrengthMax, v)

\* max(0.0, min(1.0, v))
Clamp(v) == Max(StrengthMin, Min(StrengthMax, v))

\* ---------------------------------------------------------------- adapter

\* __init__ of every adapter in A; the class attribute _instances starts empty
InitWith(A, requests) ==
    /\ instances = << >>
    /\ engines = << >>
    /\ channels \in [A -> ChannelCounts]
    /\ num_frames \in [A -> FrameSizes]
    /\ requested \in [A -> requests]
    /\ enhancement_strength = [a \in A |-> Clamp(requested[a])]
    /\ sample_rate = [a \in A |-> 0]
    /\ filtering = [a \in A |-> TRUE]
    /\ enhancer = [a \in A |-> None]
    /\ buffer = [a \in A |-> EmptyRows(channels[a])]
    /\ fed = [a \in A |-> << >>]
    /\ handed = [a \in A |-> << >>]
    /\ returned = [a \in A |-> 0]
    /\ last = Did("init", "a1", 0, "none", NoBytes, NoBytes, 0)
    /\ pc = [t \in Threads |-> "idle"]
    /\ targ = [t \in Threads |-> << >>]
    /\ tret = [t \in Threads |-> << >>]
    /\ loop = NoCall

\* a start that does not give the engine the stored strength
StartWithoutStrength(a, sr) ==
    LET g == GetProcessor(instances, engines, LicenseKey(a), sr, channels[a], num_frames[a])
    IN  /\ a \in Made
        /\ sample_rate' = [sample_rate EXCEPT ![a] = sr]
        /\ instances' = g.instances
        /\ enhancer' = [enhancer EXCEPT ![a] = g.handle]
        /\ engines' = g.engines
        /\ last' = Did("start", a, sr, "none", NoBytes, NoBytes, 0)
        /\ UNCHANGED <<channels, num_frames, enhancement_strength, filtering, buffer,
                       fed, handed, requested, returned, threadVars>>

\* start(sample_rate), the engine constructed or found
Start(a, sr) ==
    LET g == GetProcessor(instances, engines, LicenseKey(a), sr, channels[a], num_frames[a])
    IN  /\ a \in Made
        /\ sample_rate' = [sample_rate EXCEPT ![a] = sr]
        /\ instances' = g.instances
        /\ enhancer' = [enhancer EXCEPT ![a] = g.handle]
        /\ engines' = SetEnhancementStrength(g.engines, g.handle, enhancement_strength[a])
        /\ last' = Did("start", a, sr, "none", NoBytes, NoBytes, 0)
        /\ UNCHANGED <<channels, num_frames, enhancement_strength, filtering, buffer,
                       fed, handed, requested, returned, threadVars>>

\* a failing start that has already reserved the key's slot in the registry
StartFailsStoresEntry(a, sr) ==
    /\ a \in Made
    /\ Missing(instances, ConfigKey(sr, channels[a], num_frames[a]))
    /\ instances' = Store(instances, ConfigKey(sr, channels[a], num_frames[a]), None)
    /\ sample_rate' = [sample_rate EXCEPT ![a] = sr]
    /\ last' = Did("start_failed", a, sr, "none", NoBytes, NoBytes, 0)
    /\ UNCHANGED <<engines, channels, num_frames, enhancement_strength,
                   filtering, enhancer, buffer, fed, handed, requested, returned, threadVars>>

\* start(sample_rate) when the RealTimeL constructor raises: line 101 has run, the
\* assignments of lines 53 and 102 have not
StartFails(a, sr) ==
    /\ a \in Made
    /\ Missing(instances, ConfigKey(sr, channels[a], num_frames[a]))
    /\ sample_rate' = [sample_rate EXCEPT ![a] = sr]
    /\ last' = Did("start_failed", a, sr, "none", NoBytes, NoBytes, 0)
    /\ UNCHANGED <<instances, engines, channels, num_frames, enhancement_strength,
                   filtering, enhancer, buffer, fed, handed, requested, returned, threadVars>>

\* a stop that keeps the buffer
StopKeepsBuffer(a) ==
    /\ a \in Made
    /\ enhancer' = [enhancer EXCEPT ![a] = None]
    /\ last' = Did("stop", a, Width(buffer[a]), "none", NoBytes, NoBytes, 0)
    /\ UNCHANGED <<instances, engines, channels, num_frames, enhancement_strength,
                   sample_rate, filtering, buffer, fed, handed, requested, returned, threadVars>>

\* a stop that also drops the adapter's entry from the registry
StopEvicts(a) ==
    /\ a \in Made
    /\ instances' = [k \in DOMAIN instances \
                          {ConfigKey(sample_rate[a], channels[a], num_frames[a])}
                      |-> instances[k]]
    /\ enhancer' = [enhancer EXCEPT ![a] = None]
    /\ buffer' = [buffer EXCEPT ![a] = EmptyRows(channels[a])]
    /\ fed' = [fed EXCEPT ![a] = << >>]
    /\ handed' = [handed EXCEPT ![a] = << >>]
    /\ returned' = [returned EXCEPT ![a] = 0]
    /\ last' = Did("stop", a, Width(buffer[a]), "none", NoBytes, NoBytes, 0)
    /\ UNCHANGED <<engines, channels, num_frames, enhancement_strength,
                   sample_rate, filtering, requested, threadVars>>

\* stop()
Stop(a) ==
    /\ a \in Made
    /\ enhancer' = [enhancer EXCEPT ![a] = None]
    /\ buffer' = [buffer EXCEPT ![a] = EmptyRows(channels[a])]
    /\ fed' = [fed EXCEPT ![a] = << >>]
    /\ handed' = [handed EXCEPT ![a] = << >>]
    /\ returned' = [returned EXCEPT ![a] = 0]
    /\ last' = Did("stop", a, Width(buffer[a]), "none", NoBytes, NoBytes, 0)
    /\ UNCHANGED <<instances, engines, channels, num_frames, enhancement_strength,
                   sample_rate, filtering, requested, threadVars>>

\* an enable/disable that also throws the buffered samples away
ProcessEnableFrameClears(a, enable) ==
    /\ a \in Made
    /\ filtering' = [filtering EXCEPT ![a] = enable]
    /\ buffer' = [buffer EXCEPT ![a] = EmptyRows(channels[a])]
    /\ last' = Did("enable", a, enable, "none", NoBytes, NoBytes, 0)
    /\ UNCHANGED <<instances, engines, channels, num_frames, enhancement_strength,
                   sample_rate, enhancer, fed, handed, requested, returned, threadVars>>

\* process_frame(FilterEnableFrame(enable))
ProcessEnableFrame(a, enable) ==
    /\ a \in Made
    /\ filtering' = [filtering EXCEPT ![a] = enable]
    /\ last' = Did("enable", a, enable, "none", NoBytes, NoBytes, 0)
    /\ UNCHANGED <<instances, engines, channels, num_frames, enhancement_strength,
                   sample_rate, enhancer, buffer, fed, handed, requested, returned, threadVars>>

\* the settings dictionaries of a FilterUpdateSettingsFrame
SettingsDicts(requests) ==
    {[enhancement_strength |-> v] : v \in requests} \cup {[other |-> 1]}

\* process_frame(FilterUpdateSettingsFrame(settings))
ProcessUpdateSettingsFrame(a, settings) ==
    /\ a \in Made
    /\ IF "enhancement_strength" \in DOMAIN settings
       THEN LET v == Clamp(settings.enhancement_strength)
            IN  /\ enhancement_strength' = [enhancement_strength EXCEPT ![a] = v]
                /\ requested' = [requested EXCEPT ![a] = settings.enhancement_strength]
                /\ engines' = IF enhancer[a] # None
                              THEN SetEnhancementStrength(engines, enhancer[a], v)
                              ELSE engines
       ELSE UNCHANGED <<enhancement_strength, engines, requested>>
    /\ last' = Did("settings", a, settings, "none", NoBytes, NoBytes, 0)
    /\ UNCHANGED <<instances, channels, num_frames, sample_rate, filtering, enhancer,
                   buffer, fed, handed, returned, threadVars>>

\* ----------------------------------------------------------------- filter

\* the opaque engine on one float: it may leave it, attenuate it or amplify it
EngineGain(mode, x) ==
    CASE mode = "identity" -> x
      [] mode = "halve" -> x \div 2
      [] mode = "double" -> 2 * x

\* enhancer.process_deinterleaved(padded_chunk), in place
ProcessDeinterleaved(mode, padded) ==
    [r \in DOMAIN padded |-> [i \in 1..Len(padded[r]) |-> EngineGain(mode, padded[r][i])]]

\* a test that only asks for whole samples, not whole frames
WellFormedBytesOnly(audio, ch) == Len(audio) % 2 = 0

\* bytes that np.frombuffer and reshape accept for this channel count
WellFormed(audio, ch) ==
    /\ Len(audio) % 2 = 0
    /\ ch # 1 => (Len(audio) \div 2) % ch = 0

\* a buffer that is overwritten by each input
AddToBufferOverwrites(buf, data) == data

\* "Add to buffer": data.copy() when the buffer is empty, else concatenate
AddToBuffer(buf, data) ==
    IF \A r \in DOMAIN buf : buf[r] = << >> THEN data ELSE ConcatRows(buf, data)

\* a loop that also takes what is left when less than a chunk is buffered
HasChunkAny(buf, nf) == Width(buf) > 0

\* a loop that stops one chunk early
HasChunkStrict(buf, nf) == Width(buf) > nf

\* the while condition: self._buffer.shape[1] >= self._num_frames
HasChunk(buf, nf) == Width(buf) >= nf

\* self._buffer[:, :self._num_frames].copy()
ExtractChunk(buf, nf) == [r \in DOMAIN buf |-> SubSeq(buf[r], 1, Min(nf, Len(buf[r])))]

\* a slice whose result is thrown away: the buffer keeps the chunk
RemoveChunkNone(buf, nf) == buf

\* a slice that loses the sample after the chunk
RemoveChunkAndOne(buf, nf) == [r \in DOMAIN buf |-> SubSeq(buf[r], nf + 2, Len(buf[r]))]

\* self._buffer[:, self._num_frames:]
RemoveChunk(buf, nf) == [r \in DOMAIN buf |-> SubSeq(buf[r], nf + 1, Len(buf[r]))]

\* np.zeros((channels, num_frames)) with chunk written to its first columns
PadChunk(chunk, ch, nf) ==
    [r \in 1..ch |-> [i \in 1..nf |-> IF i <= Len(chunk[r]) THEN chunk[r][i] ELSE 0]]

\* padded_chunk[:, :chunk.shape[1]]
ValidPart(padded, chunk) ==
    [r \in DOMAIN padded |-> SubSeq(padded[r], 1, Width(chunk))]

\* the loop "Process complete chunks": the buffer left, the chunks passed to the
\* engine and the processed slices collected in output_chunks
RECURSIVE ProcessChunks(_, _, _, _)
ProcessChunks(buf, ch, nf, mode) ==
    IF HasChunk(buf, nf)
    THEN LET chunk == ExtractChunk(buf, nf)
             padded == PadChunk(chunk, ch, nf)
             rest == ProcessChunks(RemoveChunk(buf, nf), ch, nf, mode)
         IN  [buffer |-> rest.buffer,
              passed |-> <<padded>> \o rest.passed,
              output_chunks |->
                  <<ValidPart(ProcessDeinterleaved(mode, padded), chunk)>> \o rest.output_chunks]
    ELSE [buffer |-> buf, passed |-> << >>, output_chunks |-> << >>]

\* the newest chunk first
RECURSIVE ConcatChunksReversed(_, _)
ConcatChunksReversed(chunks, ch) ==
    IF chunks = << >> THEN EmptyRows(ch)
    ELSE ConcatRows(ConcatChunksReversed(Tail(chunks), ch), Head(chunks))

\* np.concatenate(output_chunks, axis=1)
RECURSIVE ConcatChunks(_, _)
ConcatChunks(chunks, ch) ==
    IF chunks = << >> THEN EmptyRows(ch)
    ELSE ConcatRows(Head(chunks), ConcatChunks(Tail(chunks), ch))

\* lines 198-210: the bytes returned when chunks were processed
EncodeOutput(output_chunks, ch) ==
    ToBytes(Denormalize(Interleave(ConcatChunks(output_chunks, ch), ch)))

\* a test that forgets the adapter may be stopped
PassThroughDisabledOnly(a) == ~filtering[a]

\* lines 155-156: the pass-through test
PassThrough(a) == ~filtering[a] \/ enhancer[a] = None

\* filter(audio), with the engine behaving as `mode`
Filter(a, audio, mode) ==
    IF PassThrough(a)
    THEN /\ a \in Made
         /\ last' = Did("filter", a, "unused", "passthrough", audio, audio, 0)
         /\ UNCHANGED <<instances, engines, channels, num_frames, enhancement_strength,
                        sample_rate, filtering, enhancer, buffer, fed, handed, requested,
                        returned, threadVars>>
    ELSE IF ~WellFormed(audio, channels[a])
    THEN \* np.frombuffer or reshape raises ValueError
         /\ last' = Did("filter", a, "unused", "error", audio, NoBytes, 0)
         /\ UNCHANGED <<instances, engines, channels, num_frames, enhancement_strength,
                        sample_rate, filtering, enhancer, buffer, fed, handed, requested,
                        returned, threadVars>>
    ELSE LET samples == FromBuffer(audio)
             data == Deinterleave(Normalize(samples), channels[a])
             res == ProcessChunks(AddToBuffer(buffer[a], data), channels[a], num_frames[a], mode)
         IN  /\ buffer' = [buffer EXCEPT ![a] = res.buffer]
             /\ fed' = [fed EXCEPT ![a] = @ \o samples]
             /\ handed' = [handed EXCEPT ![a] = @ \o res.passed]
             /\ last' = IF res.output_chunks = << >>
                        THEN Did("filter", a, "unused", "buffered", audio, audio, 0)
                        ELSE Did("filter", a, mode, "processed", audio,
                                 EncodeOutput(res.output_chunks, channels[a]),
                                 Len(res.passed))
             /\ returned' = [returned EXCEPT ![a] = @ + Len(last'.out) \div 2]
             /\ UNCHANGED <<instances, engines, channels, num_frames, enhancement_strength,
                            sample_rate, filtering, enhancer, requested, threadVars>>

\* the test signal: sample i of the stream an adapter is fed.  No two samples
\* are equal, and both ends of the int16 range occur
Wave(i) ==
    CASE i % 3 = 1 -> -(2 * i + 1)
      [] i % 3 = 2 -> Int16Max - (i \div 3)
      [] i % 3 = 0 -> Int16Min + (i \div 3) - 1

\* the next n samples of the stream as bytes, then `stray` odd bytes
Audio(a, n, stray) ==
    ToBytes([i \in 1..n |-> Wave(Len(fed[a]) + i)]) \o [i \in 1..stray |-> 255]

\* ---------------------------------------------------------------- threads

\* a thread calls get_processor(license_key, sample_rate, num_channels, num_frames)
Call(t, lic, sr, ch, nf) ==
    /\ pc[t] = "idle"
    /\ Len(tret[t]) < MaxCalls
    /\ targ' = [targ EXCEPT ![t] = <<lic, sr, ch, nf>>]
    /\ pc' = [pc EXCEPT ![t] = "line52"]
    /\ UNCHANGED <<instances, engines, adapterVars, tret, loop>>

\* line 52: if key not in cls._instances
Check(t) ==
    /\ pc[t] = "line52"
    /\ pc' = [pc EXCEPT ![t] =
                 IF Missing(instances, ConfigKey(targ[t][2], targ[t][3], targ[t][4]))
                 THEN "line53" ELSE "line59"]
    /\ UNCHANGED <<instances, engines, adapterVars, targ, tret, loop>>

\* lines 53-58: construct the engine and store it
Create(t) ==
    /\ pc[t] = "line53"
    /\ engines' = Append(engines, RealTimeL(targ[t][1], targ[t][2], targ[t][3], targ[t][4]))
    /\ instances' = Store(instances, ConfigKey(targ[t][2], targ[t][3], targ[t][4]),
                          Len(engines) + 1)
    /\ pc' = [pc EXCEPT ![t] = "line59"]
    /\ UNCHANGED <<adapterVars, targ, tret, loop>>

\* line 59: return cls._instances[key]
Return(t) ==
    /\ pc[t] = "line59"
    /\ LET key == ConfigKey(targ[t][2], targ[t][3], targ[t][4])
       IN  tret' = [tret EXCEPT ![t] = Append(@, <<key, instances[key]>>)]
    /\ pc' = [pc EXCEPT ![t] = "idle"]
    /\ UNCHANGED <<instances, engines, adapterVars, targ, loop>>

\* ------------------------------------------------- filter, line by line

\* lines 155-175 of a call that passes the tests of lines 155, 159 and 165-169: the
\* input is added to the buffer and the call stands at the while of line 178
FilterBegin(a, audio, mode) ==
    /\ loop.pc = "idle"
    /\ a \in Made
    /\ ~PassThrough(a)
    /\ WellFormed(audio, channels[a])
    /\ LET samples == FromBuffer(audio)
           data == Deinterleave(Normalize(samples), channels[a])
       IN  /\ buffer' = [buffer EXCEPT ![a] = AddToBuffer(@, data)]
           /\ fed' = [fed EXCEPT ![a] = @ \o samples]
    /\ loop' = [pc |-> "line178", a |-> a, mode |-> mode, audio |-> audio,
                output_chunks |-> << >>, before |-> Width(buffer[a]), iterations |-> 0]
    /\ UNCHANGED <<instances, engines, channels, num_frames, enhancement_strength,
                   sample_rate, filtering, enhancer, handed, requested, returned, last,
                   pc, targ, tret>>

\* lines 178-192: the while condition holds and the body runs once
FilterIterate(a) ==
    /\ loop.pc = "line178"
    /\ loop.a = a
    /\ HasChunk(buffer[a], num_frames[a])
    /\ LET chunk == ExtractChunk(buffer[a], num_frames[a])
           padded == PadChunk(chunk, channels[a], num_frames[a])
       IN  /\ buffer' = [buffer EXCEPT ![a] = RemoveChunk(@, num_frames[a])]
           /\ handed' = [handed EXCEPT ![a] = Append(@, padded)]
           /\ loop' = [loop EXCEPT
                          !.output_chunks =
                              Append(@, ValidPart(ProcessDeinterleaved(loop.mode, padded),
                                                  chunk)),
                          !.iterations = @ + 1]
    /\ UNCHANGED <<instances, engines, channels, num_frames, enhancement_strength,
                   sample_rate, filtering, enhancer, fed, requested, returned, last,
                   pc, targ, tret>>

\* line 178 with the condition false, then lines 195-210: the call returns
FilterReturn(a) ==
    /\ loop.pc = "line178"
    /\ loop.a = a
    /\ ~HasChunk(buffer[a], num_frames[a])
    /\ last' = IF loop.output_chunks = << >>
               THEN Did("filter", a, "unused", "buffered", loop.audio, loop.audio, 0)
               ELSE Did("filter", a, loop.mode, "processed", loop.audio,
                        EncodeOutput(loop.output_chunks, channels[a]), loop.iterations)
    /\ returned' = [returned EXCEPT ![a] = @ + Len(last'.out) \div 2]
    /\ loop' = NoCall
    /\ UNCHANGED <<instances, engines, channels, num_frames, enhancement_strength,
                   sample_rate, filtering, enhancer, buffer, fed, handed, requested,
                   pc, targ, tret>>

\* --------------------------------------------------------- specifications

\* the operations of the adapters, with start's sample rates, the strengths asked
\* for, the longest input, the most samples fed between two stops and the engine's
\* behaviours drawn from the given sets
NextOn(rates, requests, most, cap, modes) ==
    \E a \in Adapters :
        \/ \E sr \in rates : Start(a, sr)
        \/ \E sr \in rates : StartFails(a, sr)
        \/ Stop(a)
        \/ \E enable \in BOOLEAN : ProcessEnableFrame(a, enable)
        \/ \E settings \in SettingsDicts(requests) : ProcessUpdateSettingsFrame(a, settings)
        \/ \E n \in 0..most, stray \in 0..1, mode \in modes :
               /\ a \in Made
               /\ stray = 1 => n <= 1
               /\ Len(fed[a]) + n <= cap
               /\ Filter(a, Audio(a, n, stray), mode)

\* one adapter
Init == InitWith({"a1"}, StrengthRequests)

Next == NextOn(SampleRates, StrengthRequests, MaxSamples, MaxFed, EngineModes)

Spec == Init /\ [][Next]_vars

\* two adapters, one sample rate, two strengths and short inputs
InitMulti == InitWith(Adapters, {50, 200})

NextMulti == NextOn({16000}, {50, 200}, 1, MaxFedMulti, {"identity"})

SpecMulti == InitMulti /\ [][NextMulti]_vars

\* threads in get_processor, line by line
NextThreads ==
    \E t \in Threads :
        \/ \E a \in Adapters, sr \in SampleRates, nf \in FrameSizes :
               Call(t, LicenseKey(a), sr, 1, nf)
        \/ Check(t)
        \/ Create(t)
        \/ Return(t)

\* no adapter: only the registry and the threads
InitThreads == InitWith({}, StrengthRequests)

SpecThreads == InitThreads /\ [][NextThreads]_vars

\* one adapter whose filter calls run line by line; nothing else runs while a call
\* is in progress
InitLoop == InitWith({"a1"}, {50})

NextLoop ==
    \E a \in Adapters :
        \/ loop.pc = "idle" /\ Start(a, 16000)
        \/ loop.pc = "idle" /\ Stop(a)
        \/ \E n \in 0..MaxSamples, mode \in {"identity", "double"} :
               /\ a \in Made
               /\ Len(fed[a]) + n <= MaxFed
               /\ FilterBegin(a, Audio(a, n, 0), mode)
        \/ FilterIterate(a)
        \/ FilterReturn(a)

\* a call that has begun keeps running: the interpreter takes its next step
LoopStep == \E a \in Adapters : FilterIterate(a) \/ FilterReturn(a)

SpecLoop == InitLoop /\ [][NextLoop]_vars /\ WF_vars(LoopStep)

\* ----------------------------------------------------------------- claims

Running(a) == enhancer[a] # None

\* min(1, max(0, v)), in hundredths
Nearest(v) ==
    IF v < StrengthMin THEN StrengthMin ELSE IF v > StrengthMax THEN StrengthMax ELSE v

\* the step just taken was filter(audio) on adapter a
FilterStep(a) == last'.op = "filter" /\ last'.a = a

\* the samples per channel in the bytes of a well-formed input
FramesIn(audio, a) == (Len(audio) \div 2) \div channels[a]

\* the float samples of channel r that the next n frames of the stream hold
Incoming(a, r, n) == [i \in 1..n |-> Wave(Len(fed[a]) + (i - 1) * channels[a] + r) * Step]

\* channel r of a sequence of chunks, end to end
RECURSIVE JoinRow(_, _)
JoinRow(chunks, r) ==
    IF chunks = << >> THEN << >> ELSE Head(chunks)[r] \o JoinRow(Tail(chunks), r)

\* channel r of everything fed to the adapter, in arrival order, as floats
Arrived(a, r) ==
    [i \in 1..(Len(fed[a]) \div channels[a]) |-> fed[a][(i - 1) * channels[a] + r] * Step]

programVars == <<instances, engines, channels, num_frames, enhancement_strength,
                 sample_rate, filtering, enhancer, buffer>>

\* C1: whenever a filter call has returned, the rolling buffer of its adapter holds,
\* in every channel, at least 0 and fewer than frame_size samples.
C1_BufferBelowFrameSize ==
    (last.op = "filter" /\ last.path # "error") =>
        \A r \in 1..channels[last.a] :
            /\ Len(buffer[last.a][r]) >= 0
            /\ Len(buffer[last.a][r]) < num_frames[last.a]

\* a filter call processed a chunk and left a remainder in the buffer
C1_Witness ==
    /\ last.op = "filter"
    /\ last.path = "processed"
    /\ Width(buffer[last.a]) > 0

\* C2: for a running, enabled adapter, in every channel the chunks handed to the
\* engine, in call order, followed by the buffer are exactly the samples of the
\* inputs its filter calls buffered since it last was stopped, in arrival order;
\* every chunk handed holds frame_size samples per channel, and the buffer holds
\* what arrived less frame_size per chunk.
C2_FifoOfUnprocessedAudio ==
    \A a \in Made :
        (Running(a) /\ filtering[a]) =>
            \A r \in 1..channels[a] :
                /\ JoinRow(handed[a], r) \o buffer[a][r] = Arrived(a, r)
                /\ \A i \in DOMAIN handed[a] : Len(handed[a][i][r]) = num_frames[a]
                /\ Len(buffer[a][r]) =
                       (Len(fed[a]) \div channels[a]) - num_frames[a] * Len(handed[a])

\* two chunks were handed to the engine and a partial chunk is buffered
C2_Witness ==
    \E a \in Made :
        /\ Running(a) /\ filtering[a]
        /\ Len(handed[a]) >= 2
        /\ Width(buffer[a]) > 0

\* the configuration key an adapter was last started with
AdapterKey(a) == ConfigKey(sample_rate[a], channels[a], num_frames[a])

\* C3: with get_processor called one call at a time, no two engines were constructed
\* for the same key, every registry entry maps a key to the engine constructed for
\* it, start binds the adapter to its key's entry, and two running adapters hold the
\* same handle exactly when their (sample_rate, channel_count, frame_size) agree,
\* whatever their license keys.
C3_OneEnginePerKey ==
    /\ \A i, j \in DOMAIN engines :
           EngineKey(engines[i]) = EngineKey(engines[j]) => i = j
    /\ \A k \in DOMAIN instances :
           instances[k] \in DOMAIN engines /\ EngineKey(engines[instances[k]]) = k
    /\ last.op = "start" => enhancer[last.a] = instances[AdapterKey(last.a)]
    /\ \A a, b \in Made :
           (Running(a) /\ Running(b)) =>
               ((AdapterKey(a) = AdapterKey(b)) <=> (enhancer[a] = enhancer[b]))

\* two adapters with different license keys hold the same handle
C3_Witness ==
    /\ Running("a1")
    /\ enhancer["a1"] = enhancer["a2"]
    /\ LicenseKey("a1") # LicenseKey("a2")
    /\ Len(engines) = 1

\* C4: when threads call get_processor concurrently, the engine constructor runs at
\* most once per key and all callers of one key receive the same handle.
C4_ConcurrentCallersShareOneEngine ==
    /\ \A i, j \in DOMAIN engines :
           EngineKey(engines[i]) = EngineKey(engines[j]) => i = j
    /\ \A t, u \in Threads :
           \A i \in DOMAIN tret[t], j \in DOMAIN tret[u] :
               tret[t][i][1] = tret[u][j][1] => tret[t][i][2] = tret[u][j][2]

\* C5: a filter call on an adapter that is disabled or not running returns its
\* input byte for byte, leaves the rolling buffer as it was and does not call the
\* engine.
C5_PassThroughDoesNothing ==
    [][\A a \in Made :
           (FilterStep(a) /\ (~filtering[a] \/ ~Running(a))) =>
               /\ last'.out = last'.audio
               /\ last'.calls = 0
               /\ buffer' = buffer
               /\ handed' = handed
               /\ engines' = engines]_vars

\* a disabled, running adapter with a partial chunk buffered passed an input through
C5_Witness ==
    /\ last.op = "filter"
    /\ last.out = last.audio
    /\ last.audio # NoBytes
    /\ ~filtering[last.a]
    /\ Running(last.a)
    /\ Width(buffer[last.a]) > 0

\* C6: on a running, enabled adapter a filter call whose input, with what is
\* buffered, is short of frame_size samples per channel returns the input bytes,
\* does not call the engine and leaves the input appended to the buffer.
C6_ShortInputIsBuffered ==
    [][\A a \in Made :
           LET n == FramesIn(last'.audio, a)
           IN  (/\ FilterStep(a)
                /\ filtering[a] /\ Running(a)
                /\ WellFormed(last'.audio, channels[a])
                /\ Width(buffer[a]) + n < num_frames[a]) =>
                   /\ last'.out = last'.audio
                   /\ last'.calls = 0
                   /\ handed' = handed
                   /\ \A r \in 1..channels[a] :
                          buffer'[a][r] = buffer[a][r] \o Incoming(a, r, n)]_vars

\* an input was appended to a partial chunk without completing it
C6_Witness ==
    /\ last.op = "filter"
    /\ last.path = "buffered"
    /\ FramesIn(last.audio, last.a) > 0
    /\ Width(buffer[last.a]) > FramesIn(last.audio, last.a)

\* C7: on a running, enabled adapter with b samples per channel buffered and n in
\* the input, b + n >= frame_size, filter calls the engine k = (b + n) div frame_size
\* times, returns k * frame_size * channel_count * 2 bytes, which are the first
\* k * frame_size buffered-then-new samples of every channel as the engine returned
\* them, interleaved in order, and leaves (b + n) mod frame_size samples buffered.
C7_FullChunksAreProcessed ==
    [][\A a \in Made :
           LET ch == channels[a]
               nf == num_frames[a]
               b == Width(buffer[a])
               n == FramesIn(last'.audio, a)
               k == (b + n) \div nf
               held == [r \in 1..ch |-> buffer[a][r] \o Incoming(a, r, n)]
           IN  (/\ FilterStep(a)
                /\ filtering[a] /\ Running(a)
                /\ WellFormed(last'.audio, ch)
                /\ b + n >= nf) =>
                   /\ last'.calls = k
                   /\ Len(handed'[a]) = Len(handed[a]) + k
                   /\ Len(last'.out) = k * nf * ch * 2
                   /\ Width(buffer'[a]) = (b + n) % nf
                   /\ last'.out =
                          ToBytes([j \in 1..(k * nf * ch) |->
                              ToInt16(EngineGain(last'.arg,
                                  held[((j - 1) % ch) + 1][((j - 1) \div ch) + 1]))])]_vars

\* one call processed two chunks and left a remainder
C7_Witness ==
    /\ last.op = "filter"
    /\ last.calls >= 2
    /\ Len(last.out) = last.calls * num_frames[last.a] * channels[last.a] * 2
    /\ Width(buffer[last.a]) > 0

\* C8: the stored strength of every adapter is the strength last asked for, brought
\* into [0, 1], and every strength an engine was given is within [0, 1].
C8_StrengthIsClamped ==
    /\ \A a \in Made :
           /\ enhancement_strength[a] = Nearest(requested[a])
           /\ enhancement_strength[a] >= StrengthMin
           /\ enhancement_strength[a] <= StrengthMax
    /\ \A h \in DOMAIN engines :
           \A i \in DOMAIN engines[h].strength :
               /\ engines[h].strength[i] >= StrengthMin
               /\ engines[h].strength[i] <= StrengthMax

\* a running adapter was asked for -1.0 and its engine was given 0.0
C8_Witness ==
    /\ last.op = "settings"
    /\ requested[last.a] < StrengthMin
    /\ Running(last.a)
    /\ engines[enhancer[last.a]].strength = <<StrengthMin>>

\* C9: start gives the bound engine the adapter's stored strength; a strength update
\* on a running adapter gives the bound engine the new stored strength; a strength
\* update on a stopped adapter changes the stored strength and no engine, registry
\* entry or binding.
C9_StrengthIsPushed ==
    [][\A a \in Made :
           /\ (last'.op = "start" /\ last'.a = a) =>
                  /\ enhancement_strength' = enhancement_strength
                  /\ engines'[enhancer'[a]].strength = <<enhancement_strength[a]>>
           /\ (/\ last'.op = "settings" /\ last'.a = a
               /\ "enhancement_strength" \in DOMAIN last'.arg) =>
                  /\ enhancement_strength'[a] = Nearest(last'.arg.enhancement_strength)
                  /\ enhancer' = enhancer
                  /\ instances' = instances
                  /\ IF Running(a)
                     THEN engines'[enhancer[a]].strength = <<enhancement_strength'[a]>>
                     ELSE engines' = engines]_vars

\* a start gave an engine the strength 0.5
C9_Witness ==
    /\ last.op = "start"
    /\ enhancement_strength[last.a] = 50
    /\ engines[enhancer[last.a]].strength = <<50>>

\* C10: stop leaves the adapter without a handle and with an empty buffer, returns
\* nothing and does not call the engine; it leaves the enabled flags, the stored
\* strengths, the registry, the engines and the other adapters as they were; and on
\* an adapter that has no handle and an empty buffer (never started, or stopped) it
\* changes nothing.
C10_StopReleasesAndClears ==
    [][\A a \in Made :
           (last'.op = "stop" /\ last'.a = a) =>
               /\ enhancer' = [enhancer EXCEPT ![a] = None]
               /\ buffer' = [buffer EXCEPT ![a] = EmptyRows(channels[a])]
               /\ last'.out = NoBytes
               /\ last'.calls = 0
               /\ filtering' = filtering
               /\ enhancement_strength' = enhancement_strength
               /\ instances' = instances
               /\ engines' = engines
               /\ (~Running(a) /\ buffer[a] = EmptyRows(channels[a])) =>
                      programVars' = programVars]_vars

\* a stop dropped a partial chunk
C10_Witness ==
    /\ last.op = "stop"
    /\ last.arg > 0
    /\ ~Running(last.a)
    /\ Width(buffer[last.a]) = 0

\* C11: the registry never evicts.  Across every step, whichever adapter takes it
\* and whichever operation it is (start, stop, filter, a control message), each key
\* already in the registry is still there and still mapped to the same handle, and
\* the engine behind each handle is the one that was constructed for it; and a
\* start whose key is already in the registry (an adapter started again with the
\* same configuration, or a second adapter with an equal one) binds the adapter to
\* the handle stored there and constructs no engine.
C11_RegistryNeverEvicts ==
    [][/\ \A k \in DOMAIN instances :
              k \in DOMAIN instances' /\ instances'[k] = instances[k]
       /\ Len(engines') >= Len(engines)
       /\ \A h \in DOMAIN engines :
              /\ EngineKey(engines'[h]) = EngineKey(engines[h])
              /\ engines'[h].license_key = engines[h].license_key
       /\ \A a \in Made :
              (/\ last'.op = "start"
               /\ last'.a = a
               /\ ConfigKey(last'.arg, channels[a], num_frames[a]) \in DOMAIN instances)
              => /\ enhancer'[a] = instances[ConfigKey(last'.arg, channels[a], num_frames[a])]
                 /\ Len(engines') = Len(engines)]_vars

\* a1 constructed the only engine, a2 was bound to it afterwards, and the step just
\* taken is a later start of a1 that found the same handle again
C11_Witness ==
    /\ last.op = "start"
    /\ last.a = "a1"
    /\ Len(engines) = 1
    /\ engines[1].license_key = LicenseKey("a1")
    /\ enhancer["a1"] = 1
    /\ enhancer["a2"] = 1
    /\ DOMAIN instances = {AdapterKey("a1")}

\* C12: the interleave round trip.  On a running, enabled adapter with two channels,
\* an empty buffer and an identity engine, a filter call whose input is exactly
\* k * frame_size interleaved frames (k >= 1) hands the engine the even-indexed
\* samples (counting from 0) as channel 0 and the odd-indexed ones as channel 1, in
\* order, and returns bytes equal to its input, whatever the int16 values are.
C12_StereoRoundTrip ==
    [][\A a \in Made :
          (/\ FilterStep(a)
           /\ Running(a)
           /\ filtering[a]
           /\ channels[a] = 2
           /\ Width(buffer[a]) = 0
           /\ WellFormed(last'.audio, channels[a])
           /\ FramesIn(last'.audio, a) >= 1
           /\ FramesIn(last'.audio, a) % num_frames[a] = 0
           /\ last'.arg = "identity")
          => LET samples == FromBuffer(last'.audio)
                 n == FramesIn(last'.audio, a)
                 new == SubSeq(handed'[a], Len(handed[a]) + 1, Len(handed'[a]))
             IN  /\ JoinRow(new, 1) = [i \in 1..n |-> samples[2 * i - 1] * Step]
                 /\ JoinRow(new, 2) = [i \in 1..n |-> samples[2 * i] * Step]
                 /\ last'.calls = n \div num_frames[a]
                 /\ last'.out = last'.audio
                 /\ Width(buffer'[a]) = 0]_vars

\* a first call of two stereo frames at frame size 1 came back as it went in, after
\* two engine calls
C12_Witness ==
    /\ last.op = "filter"
    /\ last.path = "processed"
    /\ last.arg = "identity"
    /\ channels[last.a] = 2
    /\ num_frames[last.a] = 1
    /\ Len(fed[last.a]) = 4
    /\ Len(last.audio) = 8
    /\ last.calls = 2
    /\ last.out = last.audio

\* C13, as stated: after a start whose engine construction failed, no entry is
\* stored for the key and the adapter is not running (so its filter calls pass
\* their input through).
C13_FailedStartLeavesAdapterStopped ==
    last.op = "start_failed"
    => /\ Missing(instances, ConfigKey(last.arg, channels[last.a], num_frames[last.a]))
       /\ ~Running(last.a)

\* C13, amended: a start whose engine construction fails stores no entry for the
\* key (the key is still missing afterwards, so a later start constructs again),
\* constructs no engine, and leaves the adapter's handle and buffer as they were: an
\* adapter that was not running is still not running and passes its input through,
\* one that was running keeps the handle it had.
C13_FailedStartChangesNoBinding ==
    [][\A a \in Made :
          (last'.op = "start_failed" /\ last'.a = a)
          => /\ instances' = instances
             /\ engines' = engines
             /\ Missing(instances', ConfigKey(last'.arg, channels[a], num_frames[a]))
             /\ enhancer' = enhancer
             /\ buffer' = buffer
             /\ filtering' = filtering
             /\ enhancement_strength' = enhancement_strength
             /\ ~Running(a) => (enhancer'[a] = None /\ PassThrough(a)')]_vars

\* a stopped adapter whose start at a second rate has just failed: the first rate's
\* entry is there, the failed one is not
C13_Witness ==
    /\ last.op = "start_failed"
    /\ ~Running(last.a)
    /\ Len(engines) = 1
    /\ DOMAIN instances # {}
    /\ Missing(instances, ConfigKey(last.arg, channels[last.a], num_frames[last.a]))

\* C14: a control message has only its stated effect.  An enable/disable message
\* changes the adapter's pass-through flag to the value sent and nothing else.  A
\* settings update holding enhancement_strength changes the adapter's stored
\* strength and, when the adapter is running, the strength of the engine bound to
\* it, and nothing else.  A settings update without that key changes nothing.  No
\* control message changes a buffer, a handle binding, the registry, a channel
\* count or a frame size.
C14_ControlMessagesChangeOnlyTheirField ==
    [][\A a \in Made :
          /\ (last'.op = "enable" /\ last'.a = a)
             => /\ filtering' = [filtering EXCEPT ![a] = last'.arg]
                /\ UNCHANGED <<instances, engines, channels, num_frames,
                               enhancement_strength, sample_rate, enhancer, buffer>>
          /\ (last'.op = "settings" /\ last'.a = a)
             => /\ UNCHANGED <<instances, channels, num_frames, sample_rate, filtering,
                               enhancer, buffer>>
                /\ Len(engines') = Len(engines)
                /\ IF "enhancement_strength" \in DOMAIN last'.arg
                   THEN /\ \A b \in Made \ {a} :
                               enhancement_strength'[b] = enhancement_strength[b]
                        /\ \A h \in DOMAIN engines :
                               engines'[h] =
                                   IF h = enhancer[a]
                                   THEN [engines[h] EXCEPT
                                            !.strength = <<enhancement_strength'[a]>>]
                                   ELSE engines[h]
                   ELSE UNCHANGED <<enhancement_strength, engines>>]_vars

\* a running adapter holding part of a chunk has just been disabled, and the part
\* is still in its buffer
C14_Witness ==
    /\ last.op = "enable"
    /\ last.arg = FALSE
    /\ Running(last.a)
    /\ ~filtering[last.a]
    /\ Width(buffer[last.a]) > 0

\* C15: the zero-padding path is never taken.  Every chunk passed to the engine has
\* shape channel_count x frame_size and holds frame_size samples per channel that
\* all came from the input, in arrival order (the i-th chunk of an adapter is the
\* i-th run of frame_size samples of each channel of what it was fed; no sample is
\* a filled-in zero); and the output of a call that processed k chunks holds
\* exactly k * frame_size samples per channel.
C15_NoZeroPadding ==
    \A a \in Made :
        /\ \A i \in 1..Len(handed[a]) :
               /\ DOMAIN handed[a][i] = 1..channels[a]
               /\ \A r \in 1..channels[a] :
                      /\ Len(handed[a][i][r]) = num_frames[a]
                      /\ i * num_frames[a] <= Len(Arrived(a, r))
                      /\ handed[a][i][r] =
                             SubSeq(Arrived(a, r), (i - 1) * num_frames[a] + 1,
                                    i * num_frames[a])
                      /\ \A j \in 1..num_frames[a] : handed[a][i][r][j] # 0
        /\ (last.op = "filter" /\ last.a = a /\ last.path = "processed")
           => Len(last.out) = 2 * channels[a] * num_frames[a] * last.calls

\* a stereo adapter with frame size 2 has handed the engine a chunk that was
\* completed by a second call
C15_Witness ==
    /\ last.op = "filter"
    /\ last.path = "processed"
    /\ channels[last.a] = 2
    /\ num_frames[last.a] = 2
    /\ Len(handed[last.a]) = 1
    /\ Len(last.audio) < 8

\* C16: malformed input is rejected.  A filter call on a running, enabled adapter
\* whose byte length is not a multiple of channel_count x 2 fails with an error: it
\* returns no audio, calls the engine not once, and leaves the buffer and every
\* other field of the adapter, the registry and the engines as they were, so the
\* next well-formed call starts from the state the malformed call found.
C16_MalformedInputIsRejected ==
    [][\A a \in Made :
          (/\ FilterStep(a)
           /\ Running(a)
           /\ filtering[a]
           /\ Len(last'.audio) % (channels[a] * 2) # 0)
          => /\ last'.path = "error"
             /\ last'.out = NoBytes
             /\ last'.calls = 0
             /\ buffer' = buffer
             /\ programVars' = programVars
             /\ fed' = fed
             /\ handed' = handed
             /\ returned' = returned]_vars

\* a stereo adapter holding part of a chunk was given one int16 sample, half a
\* frame: the call failed and the part is still buffered
C16_Witness ==
    /\ last.op = "filter"
    /\ last.path = "error"
    /\ Running(last.a)
    /\ filtering[last.a]
    /\ channels[last.a] = 2
    /\ Len(last.audio) = 2
    /\ Width(buffer[last.a]) > 0

\* C17: the chunk-draining loop terminates.  With every frame size from 1 up and
\* every input, each iteration of the loop finds at least frame_size samples per
\* channel buffered and removes exactly frame_size of them from every channel; a
\* call that found b samples per channel buffered and was given n more leaves the
\* loop after floor((b + n) / frame_size) iterations with (b + n) mod frame_size
\* samples buffered; and every call that reaches the loop returns.
C17_ChunkLoopTerminates ==
    /\ [][\A a \in Made :
             /\ (/\ loop.pc = "line178"
                 /\ loop.a = a
                 /\ loop'.pc = "line178"
                 /\ loop'.iterations = loop.iterations + 1)
                => /\ Width(buffer[a]) >= num_frames[a]
                   /\ \A r \in 1..channels[a] :
                          Len(buffer'[a][r]) = Len(buffer[a][r]) - num_frames[a]
             /\ (/\ loop.pc = "line178"
                 /\ loop.a = a
                 /\ loop'.pc = "idle")
                => LET total == loop.before + FramesIn(loop.audio, a)
                   IN  /\ loop.iterations = total \div num_frames[a]
                       /\ Width(buffer'[a]) = total % num_frames[a]
                       /\ last'.op = "filter"
                       /\ last'.calls = loop.iterations]_vars
    /\ (loop.pc = "line178" ~> loop.pc = "idle")

\* a call that found one sample buffered and was given three more has run the
\* loop twice at frame size 2 and is about to leave it
C17_Witness ==
    /\ loop.pc = "line178"
    /\ num_frames[loop.a] = 2
    /\ channels[loop.a] = 1
    /\ loop.before = 1
    /\ Len(loop.audio) = 6
    /\ loop.iterations = 2
    /\ ~HasChunk(buffer[loop.a], num_frames[loop.a])

\* C18: each supplied sample is returned at most once.  For every adapter, the
\* number of samples its filter calls have returned since it was last stopped,
\* counting both the inputs handed back unchanged by calls that completed no chunk
\* and the processed chunks, never exceeds the number of samples those calls were
\* given.
C18_EachSampleReturnedAtMostOnce ==
    \A a \in Made : returned[a] <= Len(fed[a])

\* C19: the enhancement strength is owned by one adapter.  In every state, adapters
\* sharing an engine handle included, the strength last set on the engine bound to
\* each running adapter is that adapter's own stored strength.
C19_StrengthOwnedByOneAdapter ==
    \A a \in Made :
        Running(a) => engines[enhancer[a]].strength = <<enhancement_strength[a]>>

====
